---- MODULE Spec2Model ----
(***************************************************************************)
(* Model of the backtesting interface: the data normalizers of App.tsx     *)
(* (convertCandlesToChartData, convertEquityToChartData,                   *)
(* convertIndicatorsToChartData) and the CandlestickChart component with   *)
(* indicators and legend (the component source is the TypeScript part of   *)
(* CHART_INTEGRATION.md, lines 527-865).                                   *)
(*                                                                         *)
(* Strings that the code takes apart (datetime) are sequences of one-      *)
(* character strings.  A JavaScript object or Map is a sequence of         *)
(* <<key, value>> pairs in insertion order with distinct keys.  A JSON     *)
(* value of an indicator field is a tagged record (number, null, string);  *)
(* reading a missing key gives Undefined.                                  *)
(***************************************************************************)
EXTENDS Integers, Sequences, FiniteSets, TLC

VARIABLES
    normIn,        \* the normalizer last called and its argument
    normOut,       \* what that call returned
    mounted,       \* a CandlestickChart instance is mounted
    inst,          \* number of the current (or last) component instance
    props,         \* props of the mounted instance
    chartRef,      \* chartRef.current: 0 is null, else a surface id
    charts,        \* every surface createChart has returned, by id
    seriesMap,     \* seriesMap.current of the current instance
    legendData,    \* the legendData state of the current instance
    timers,        \* pending setTimeout callbacks, oldest first
    roActive,      \* the ResizeObserver of the instance is connected
    roHeight,      \* the height captured by the observer's callback
    lastFire,      \* history: what the timer callback did, if the step
                   \* just taken was one
    refitsSinceResize, \* history: fitContent calls made by timer callbacks
                       \* since the last resize event
    removeCalls,   \* history: the surfaces remove() was called on, in order
    results,       \* the App's results state, what the props are made from
    lastParam,     \* history: the crosshair event, if the step just taken
                   \* was one, and whether it hid a legend that was shown
    selectedStrategy, \* the App's form state (App.tsx 106-112) ...
    amount,
    displayAmount,
    startDate,
    endDate,
    stock,
    error,
    showResults,   \* ... and its run state (113-116)
    loading,
    apiError,
    flight,        \* the fetch of the run in progress and what it was sent
    runEnd         \* history: how the last run ended, until the next starts

vars == <<normIn, normOut, mounted, inst, props, chartRef, charts, seriesMap,
          legendData, timers, roActive, roHeight, lastFire, refitsSinceResize,
          removeCalls, lastParam, results, selectedStrategy, amount,
          displayAmount, startDate, endDate, stock, error, showResults,
          loading, apiError, flight, runEnd>>

formVars == <<selectedStrategy, amount, displayAmount, startDate, endDate,
              stock, error>>

runVars == <<showResults, loading, apiError, flight, runEnd>>

appVars == <<formVars, runVars>>

componentVars == <<mounted, inst, props, chartRef, charts, seriesMap,
                   legendData, timers, roActive, roHeight, lastFire,
                   refitsSinceResize, removeCalls, lastParam>>

normVars == <<normIn, normOut>>

chartVars == <<mounted, inst, props, chartRef, charts, seriesMap, legendData,
               timers, roActive, roHeight, lastFire, refitsSinceResize,
               removeCalls, lastParam, results>>

(***************************************************************************)
(* Bounds of the model.                                                    *)
(***************************************************************************)
MaxRecs == 2

MaxGen == 2

MaxPending == 2

(***************************************************************************)
(* JavaScript values.                                                      *)
(***************************************************************************)
Null == [t |-> "null"]

Undefined == [t |-> "undefined"]

Num(n) == [t |-> "number", n |-> n]

Str(s) == [t |-> "string", s |-> s]

\* JavaScript truthiness of a JSON value: "", null, undefined and 0 are falsy.
Truthy(v) ==
    CASE v.t = "string" -> v.s # <<>>
      [] v.t = "number" -> v.n # 0
      [] OTHER -> FALSE

\* Objects and Maps: sequences of <<key, value>> with distinct keys.
Keys(obj) == [i \in 1..Len(obj) |-> obj[i][1]]

Has(obj, k) == \E i \in 1..Len(obj) : obj[i][1] = k

Get(obj, k) ==
    IF Has(obj, k)
    THEN obj[CHOOSE i \in 1..Len(obj) : obj[i][1] = k][2]
    ELSE Undefined

\* obj[k] = v and Map.prototype.set: an existing key keeps its position.
Put(obj, k, v) ==
    IF Has(obj, k)
    THEN [i \in 1..Len(obj) |-> IF obj[i][1] = k THEN <<k, v>> ELSE obj[i]]
    ELSE Append(obj, <<k, v>>)

\* Array.prototype.filter, by index so that the kept records are known.
\* keep[i] is the callback's verdict on seq[i]
RECURSIVE FilterIdx(_, _)
FilterIdx(keep, i) ==
    IF i > Len(keep) THEN <<>>
    ELSE IF keep[i] THEN <<i>> \o FilterIdx(keep, i + 1)
    ELSE FilterIdx(keep, i + 1)

Filter(seq, keep) ==
    LET idx == FilterIdx(keep, 1)
    IN  [k \in 1..Len(idx) |-> seq[idx[k]]]

(***************************************************************************)
(* datetime.split('T')[0]: the text before the first 'T', the whole text   *)
(* when there is none.                                                     *)
(***************************************************************************)
\* faulty variant: the time taken off by length, two characters from the end
SliceOffTime(s) == IF Len(s) >= 2 THEN SubSeq(s, 1, Len(s) - 2) ELSE <<>>

SplitT0(s) ==
    LET ts == {i \in 1..Len(s) : s[i] = "T"}
    IN  IF ts = {} THEN s
        ELSE SubSeq(s, 1, (CHOOSE i \in ts : \A j \in ts : i <= j) - 1)

(***************************************************************************)
(* App.tsx 280-308                                                         *)
(***************************************************************************)
\* faulty variant: the filter on candle.datetime left out
CandleKeepsAll(candle) == TRUE

\* 283: .filter(candle => candle.datetime) of the price sequence
CandleHasDatetime(candle) == candle.datetime # <<>>

\* faulty variant: the volume sequence made of every candle
VolumeKeepsAll(candle) == TRUE

\* 298: .filter(candle => candle.datetime) of the volume sequence
VolumeHasDatetime(candle) == candle.datetime # <<>>

ToPrice(candle) ==
    [time |-> SplitT0(candle.datetime), open |-> candle.open,
     high |-> candle.high, low |-> candle.low, close |-> candle.close]

ToVolume(candle) ==
    [time |-> SplitT0(candle.datetime), value |-> candle.volume]

convertCandlesToChartData(candles) ==
    LET kept    == Filter(candles,
                          [i \in 1..Len(candles) |->
                              CandleHasDatetime(candles[i])])
        keptVol == Filter(candles,
                          [i \in 1..Len(candles) |->
                              VolumeHasDatetime(candles[i])])
    IN  [priceData  |-> [k \in 1..Len(kept) |-> ToPrice(kept[k])],
         volumeData |-> [k \in 1..Len(keptVol) |-> ToVolume(keptVol[k])]]

(***************************************************************************)
(* App.tsx 311-321                                                         *)
(***************************************************************************)
EquityHasDatetime(point) == point.datetime # <<>>

ToEquityLine(point) ==
    [time |-> SplitT0(point.datetime), value |-> point.equity]

\* faulty variant: one entry a day, the first
convertEquityOnePerDay(equity) ==
    LET kept == Filter(equity,
                       [i \in 1..Len(equity) |-> EquityHasDatetime(equity[i])])
        out  == [k \in 1..Len(kept) |-> ToEquityLine(kept[k])]
    IN  Filter(out, [k \in 1..Len(out) |->
                        \A m \in 1..(k - 1) : out[m].time # out[k].time])

convertEquityToChartData(equity) ==
    LET kept == Filter(equity,
                       [i \in 1..Len(equity) |-> EquityHasDatetime(equity[i])])
    IN  [k \in 1..Len(kept) |-> ToEquityLine(kept[k])]

(***************************************************************************)
(* App.tsx 324-361.  An indicator data point is an object whose keys       *)
(* include "datetime"; indicators is an object name -> array of points.    *)
(***************************************************************************)
PointHasDatetime(p) == Truthy(Get(p, "datetime"))

\* faulty variant: dataPoints[0] taken as the sample whatever its datetime
FindSampleFirst(dataPoints) == IF Len(dataPoints) = 0 THEN 0 ELSE 1

\* dataPoints.find(p => p.datetime): index of the first match, 0 if none.
FindSample(dataPoints) ==
    LET hits == {i \in 1..Len(dataPoints) : PointHasDatetime(dataPoints[i])}
    IN  IF hits = {} THEN 0 ELSE CHOOSE i \in hits : \A j \in hits : i <= j

\* Object.keys(samplePoint).filter(key => key !== 'datetime')
IsField(key) == key # "datetime"

SampleFields(samplePoint) ==
    LET keys == Keys(samplePoint)
    IN  Filter(keys, [i \in 1..Len(keys) |-> IsField(keys[i])])

\* faulty variant: the test point[field] !== null left out
LineKeepsNull(point, field) == PointHasDatetime(point)

\* point.datetime && point[field] !== null
LineKeeps(point, field) ==
    PointHasDatetime(point) /\ Get(point, field) # Null

ToLinePoint(point, field) ==
    [time |-> SplitT0(Get(point, "datetime").s), value |-> Get(point, field)]

LineData(dataPoints, field) ==
    LET kept == Filter(dataPoints,
                       [i \in 1..Len(dataPoints) |->
                           LineKeeps(dataPoints[i], field)])
    IN  [k \in 1..Len(kept) |-> ToLinePoint(kept[k], field)]

\* the loop over fields, result[indicatorName][field] = lineData
RECURSIVE FieldLoop(_, _, _, _)
FieldLoop(lines, dataPoints, fields, i) ==
    IF i > Len(fields) THEN lines
    ELSE FieldLoop(Put(lines, fields[i], LineData(dataPoints, fields[i])),
                   dataPoints, fields, i + 1)

\* faulty variant: without a dated sample, the fields of the first record
IndicatorLinesAnySample(dataPoints) ==
    LET s == FindSample(dataPoints)
    IN  IF s = 0
        THEN IF Len(dataPoints) = 0 THEN <<>>
             ELSE FieldLoop(<<>>, dataPoints, SampleFields(dataPoints[1]), 1)
        ELSE FieldLoop(<<>>, dataPoints, SampleFields(dataPoints[s]), 1)

\* 330-356: the body of the loop for one indicator
IndicatorLines(dataPoints) ==
    LET s == FindSample(dataPoints)
    IN  IF s = 0 THEN <<>>
        ELSE FieldLoop(<<>>, dataPoints, SampleFields(dataPoints[s]), 1)

RECURSIVE IndicatorLoop(_, _, _)
IndicatorLoop(result, indicators, i) ==
    IF i > Len(indicators) THEN result
    ELSE IndicatorLoop(Put(result, indicators[i][1],
                           IndicatorLines(indicators[i][2])),
                       indicators, i + 1)

convertIndicatorsToChartData(indicators) == IndicatorLoop(<<>>, indicators, 1)

\* convertTradesToMarkers, App.tsx 364-370: a map over the trades, no filter
ToMarker(trade) ==
    [time |-> SplitT0(trade.datetime), type |-> trade.type,
     price |-> trade.price]

convertTradesToMarkers(trades) ==
    [i \in 1..Len(trades) |-> ToMarker(trades[i])]

(***************************************************************************)
(* Inputs of the normalizers.  Datetimes: empty, two pure dates, two       *)
(* timestamps (one of them on the day of a pure date) and a text that      *)
(* begins with the separator.                                              *)
(***************************************************************************)
DateTimes ==
    { <<>>, <<"1">>, <<"2">>, <<"1", "T", "5">>, <<"2", "T", "5">>,
      <<"T", "5">>, <<"2", "T", "T">> }

Prices == {1, 2}

Candle(d, v) ==
    [datetime |-> d, open |-> v, high |-> v + 1, low |-> v - 1, close |-> v,
     volume |-> v * 100]

CandlePool == {Candle(d, v) : d \in DateTimes, v \in Prices}

EquityPool == {[datetime |-> d, equity |-> v] : d \in DateTimes, v \in Prices}

IndDateTimes == { <<>>, <<"1">>, <<"2", "T", "5">> }

\* the fields of a data point after its datetime, in key order
FieldVariants ==
    { <<>>,
      << <<"a", Num(1)>> >>,
      << <<"a", Null>> >>,
      << <<"b", Num(2)>> >>,
      << <<"a", Num(1)>>, <<"b", Num(2)>> >>,
      << <<"a", Null>>, <<"b", Num(2)>> >>,
      << <<"b", Num(2)>>, <<"a", Num(1)>> >> }

Point(d, fields) == << <<"datetime", Str(d)>> >> \o fields

PointPool == {Point(d, f) : d \in IndDateTimes, f \in FieldVariants}

\* what a second indicator of the same payload may hold
SecondPool ==
    { <<>>,
      << Point(<<>>, << <<"a", Num(1)>> >>) >>,
      << Point(<<"1">>, << <<"b", Null>> >>),
         Point(<<"2">>, << <<"b", Num(2)>>, <<"c", Num(1)>> >>) >> }

SecondChoices ==
    { <<>> } \cup { << <<"y", snd>> >> : snd \in SecondPool }

(***************************************************************************)
(* Each normalizer applied once to one input of the bounded sets.          *)
(***************************************************************************)
\* trade signals: type 'buy' | 'sell', price optional (App.tsx 63-67)
TradePool ==
    {[datetime |-> d, type |-> ty, price |-> pr] :
        d \in IndDateTimes, ty \in {"buy", "sell"}, pr \in {Num(1), Undefined}}

NoCall == [fn |-> "none", candles |-> <<>>, equity |-> <<>>, indicators |-> <<>>,
           trades |-> <<>>]

NoOutput == [priceData |-> <<>>, volumeData |-> <<>>, equityData |-> <<>>,
             indicatorsData |-> <<>>, markers |-> <<>>]

CallCandles ==
    /\ normIn = NoCall
    /\ \E n \in 0..MaxRecs : \E candles \in [1..n -> CandlePool] :
        /\ normIn' = [NoCall EXCEPT !.fn = "candles", !.candles = candles]
        /\ normOut' =
              [NoOutput EXCEPT
                 !.priceData = convertCandlesToChartData(candles).priceData,
                 !.volumeData = convertCandlesToChartData(candles).volumeData]
        /\ UNCHANGED <<chartVars, appVars>>

CallEquity ==
    /\ normIn = NoCall
    /\ \E n \in 0..MaxRecs : \E equity \in [1..n -> EquityPool] :
        /\ normIn' = [NoCall EXCEPT !.fn = "equity", !.equity = equity]
        /\ normOut' =
              [NoOutput EXCEPT !.equityData = convertEquityToChartData(equity)]
        /\ UNCHANGED <<chartVars, appVars>>

\* an indicator "x" with any bounded list of points, alone or followed by "y"
CallIndicators ==
    /\ normIn = NoCall
    /\ \E n \in 0..MaxRecs : \E pts \in [1..n -> PointPool] :
        \E rest \in SecondChoices :
            /\ normIn' = [NoCall EXCEPT !.fn = "indicators",
                                        !.indicators = << <<"x", pts>> >> \o rest]
            /\ normOut' =
                  [NoOutput EXCEPT
                     !.indicatorsData =
                         convertIndicatorsToChartData(<< <<"x", pts>> >> \o rest)]
            /\ UNCHANGED <<chartVars, appVars>>

CallTrades ==
    /\ normIn = NoCall
    /\ \E n \in 0..MaxRecs : \E trades \in [1..n -> TradePool] :
        /\ normIn' = [NoCall EXCEPT !.fn = "trades", !.trades = trades]
        /\ normOut' = [NoOutput EXCEPT !.markers = convertTradesToMarkers(trades)]
        /\ UNCHANGED <<chartVars, appVars>>

(***************************************************************************)
(* The CandlestickChart component, CHART_INTEGRATION.md 576-865.           *)
(*                                                                         *)
(* A surface (what createChart returns) is a record; a series handle is   *)
(* <<surface id, position of the series on it>>.  A removed surface keeps  *)
(* nothing but its removed mark.                                           *)
(***************************************************************************)
indicatorColors ==
    << "#26a69a", "#ef5350", "#ab47bc", "#ffa726",
       "#42a5f5", "#66bb6a", "#ec407a", "#ffee58" >>

\* height={500} where the App renders the chart; 400 when the prop is left out
AppHeight == 500

DefaultHeight == 400

Widths == {800, 1024}

NoProps == [priceData |-> <<>>, volumeData |-> <<>>, equityData |-> <<>>,
            indicatorsData |-> <<>>, height |-> 0]

NoFire == [fired |-> FALSE]

NoTime == <<>>

\* results === null
NoResults == [candles |-> <<>>, equity |-> <<>>, indicators |-> <<>>]

NoParam == [moved |-> FALSE, time |-> NoTime, surface |-> 0,
            hidLegend |-> FALSE]

\* App.tsx 483-490: the props the App renders the chart with
PropsOf(res, height) ==
    [priceData      |-> convertCandlesToChartData(res.candles).priceData,
     volumeData     |-> convertCandlesToChartData(res.candles).volumeData,
     equityData     |-> convertEquityToChartData(res.equity),
     indicatorsData |-> convertIndicatorsToChartData(res.indicators),
     height         |-> height]

\* `${indicatorName}.${lineName}`
FullName(indicatorName, lineName) == indicatorName \o "." \o lineName

\* colorIndex++ of the indicator loop
NextColorIndex(colorIndex) == colorIndex + 1

\* faulty variant: the palette entered one colour too far
ColorAtNext(colorIndex) ==
    indicatorColors[((colorIndex + 1) % Len(indicatorColors)) + 1]

\* indicatorColors[colorIndex % indicatorColors.length]
ColorAt(colorIndex) == indicatorColors[(colorIndex % Len(indicatorColors)) + 1]

\* faulty variant: a line without data is given a series like any other
SkipsNoLine(lineData) == FALSE

\* 702: if (lineData.length === 0) continue
SkipsLine(lineData) == Len(lineData) = 0

\* One pass of the inner loop (700-722) over the lines of one indicator.
\* acc: the series added so far, the map and colorIndex.
RECURSIVE LineLoop(_, _, _, _, _)
LineLoop(acc, id, indicatorName, lines, j) ==
    IF j > Len(lines) THEN acc
    ELSE IF SkipsLine(lines[j][2])
    THEN LineLoop(acc, id, indicatorName, lines, j + 1)
    ELSE
      LET fullName == FullName(indicatorName, lines[j][1])
          color    == ColorAt(acc.colorIndex)
          handle   == <<id, Len(acc.series) + 1>>
          added    == [type |-> "Line", priceScaleId |-> "right",
                       color |-> color, title |-> fullName,
                       data |-> lines[j][2]]
      IN  LineLoop([series     |-> Append(acc.series, added),
                    map        |-> Put(acc.map, fullName,
                                       [series |-> handle, color |-> color]),
                    colorIndex |-> NextColorIndex(acc.colorIndex)],
                   id, indicatorName, lines, j + 1)

RECURSIVE IndicatorSeriesLoop(_, _, _, _)
IndicatorSeriesLoop(acc, id, indicatorsData, i) ==
    IF i > Len(indicatorsData) THEN acc
    ELSE IndicatorSeriesLoop(
             LineLoop(acc, id, indicatorsData[i][1], indicatorsData[i][2], 1),
             id, indicatorsData, i + 1)

\* 636-648: the candlestick series, always added
AddPrice(acc, id, p) ==
    [acc EXCEPT
       !.series = Append(@, [type |-> "Candlestick", priceScaleId |-> "right",
                             color |-> "", title |-> "",
                             data |-> p.priceData]),
       !.map = Put(@, "price", [series |-> <<id, Len(acc.series) + 1>>])]

\* 654-675
AddVolume(acc, id, p) ==
    IF Len(p.volumeData) > 0
    THEN [acc EXCEPT
            !.series = Append(@, [type |-> "Histogram", priceScaleId |-> "",
                                  color |-> "#182233", title |-> "",
                                  data |-> p.volumeData]),
            !.map = Put(@, "volume", [series |-> <<id, Len(acc.series) + 1>>])]
    ELSE acc

\* faulty variant: the equity line put on the scale of the price
AddEquityOnRight(acc, id, p) ==
    IF Len(p.equityData) > 0
    THEN [acc EXCEPT
            !.series = Append(@, [type |-> "Line", priceScaleId |-> "right",
                                  color |-> "#2962FF", title |-> "",
                                  data |-> p.equityData]),
            !.map = Put(@, "equity", [series |-> <<id, Len(acc.series) + 1>>])]
    ELSE acc

\* 678-694
AddEquity(acc, id, p) ==
    IF Len(p.equityData) > 0
    THEN [acc EXCEPT
            !.series = Append(@, [type |-> "Line", priceScaleId |-> "left",
                                  color |-> "#2962FF", title |-> "",
                                  data |-> p.equityData]),
            !.map = Put(@, "equity", [series |-> <<id, Len(acc.series) + 1>>])]
    ELSE acc

\* 697-724
AddIndicators(acc, id, p) ==
    IF Len(Keys(p.indicatorsData)) > 0
    THEN IndicatorSeriesLoop(acc, id, p.indicatorsData, 1)
    ELSE acc

\* what the effect starts from: the map as the previous builds left it
RegistryAtBuild(map) == map

\* 603-780: the body of the chart effect for surface id, props p
BuildChart(id, p, map) ==
    AddIndicators(
        AddEquity(
            AddVolume(
                AddPrice([series |-> <<>>, map |-> RegistryAtBuild(map),
                          colorIndex |-> 0], id, p),
                id, p),
            id, p),
        id, p)

Surface(built, width, height) ==
    [removed |-> FALSE, width |-> width, height |-> height,
     series |-> built.series]

Removed == [removed |-> TRUE]

\* faulty variant: chartRef.current = null left out of the cleanup
RefKept(ref) == ref

\* chartRef.current = null
RefAfterCleanup(ref) == 0

\* faulty variant: the test of chartRef.current left out
CleanupUnguarded(cs, ref) ==
    << [i \in 1..Len(cs) |-> IF i = ref THEN Removed ELSE cs[i]],
       RefAfterCleanup(ref), <<ref>> >>

\* 783-788: the cleanup of the chart effect; returns charts, chartRef and
\* the surfaces remove() was called on
Cleanup(cs, ref) ==
    IF ref # 0
    THEN << [cs EXCEPT ![ref] = Removed], RefAfterCleanup(ref), <<ref>> >>
    ELSE << cs, ref, <<>> >>


(***************************************************************************)
(* Payloads the chart is rendered with: dates unique and ascending, as the *)
(* chart library requires of the data it is given.                         *)
(***************************************************************************)
Day1 == <<"1">>

Day2 == <<"2", "T", "5">>

TwoCandles == << Candle(Day1, 1), Candle(Day2, 2) >>

TwoEquity == << [datetime |-> Day1, equity |-> 1],
                [datetime |-> Day2, equity |-> 2] >>

\* the example of the documentation: one line with a warm-up null
PayloadSma ==
    [candles |-> TwoCandles, equity |-> TwoEquity,
     indicators |->
       << <<"sma", << Point(Day1, << <<"value", Null>> >>),
                      Point(Day2, << <<"value", Num(5)>> >>) >> >> >>]

\* macd before sma, and a line (signal) present on the second day only
PayloadMacdSma ==
    [candles |-> TwoCandles, equity |-> <<>>,
     indicators |->
       << <<"macd", << Point(Day1, << <<"macd", Num(1)>>, <<"signal", Null>>,
                                      <<"histogram", Num(2)>> >>),
                       Point(Day2, << <<"macd", Num(2)>>, <<"signal", Num(3)>>,
                                      <<"histogram", Null>> >>) >> >>,
          <<"sma", << Point(Day1, << <<"value", Num(4)>> >>) >> >> >>]

\* candles without a usable datetime: the chart mounts with price only
PayloadBare ==
    [candles |-> << Candle(<<>>, 1) >>, equity |-> <<>>, indicators |-> <<>>]

\* indicator and field names that contain the separator of the full name
PayloadDotted ==
    [candles |-> TwoCandles, equity |-> <<>>,
     indicators |->
       << <<"a.b", << Point(Day1, << <<"c", Num(1)>> >>) >> >>,
          <<"a",   << Point(Day1, << <<"b.c", Num(2)>> >>) >> >> >>]

\* ten lines with data and, among them, one without (macd.signal); two
\* indicators without any dated record (rsi, ema)
PayloadWide ==
    [candles |-> TwoCandles, equity |-> TwoEquity,
     indicators |->
       << <<"rsi",  <<>> >>,
          <<"bb",   << Point(Day1, << <<"top", Num(3)>>, <<"mid", Num(2)>>,
                                      <<"bot", Num(1)>> >>) >> >>,
          <<"macd", << Point(Day1, << <<"macd", Num(1)>>, <<"signal", Null>>,
                                      <<"histogram", Num(2)>> >>) >> >>,
          <<"ema",  << Point(<<>>, << <<"value", Num(1)>> >>) >> >>,
          <<"kc",   << Point(Day1, << <<"upper", Num(3)>>, <<"middle", Num(2)>>,
                                      <<"lower", Num(1)>> >>) >> >>,
          <<"st",   << Point(Day2, << <<"up", Num(1)>>, <<"dn", Num(2)>> >>) >> >>
       >>]

Payloads == {PayloadSma, PayloadMacdSma, PayloadBare, PayloadDotted, PayloadWide}

\* what the component is rendered with: every payload at the App's height,
\* and one of them at the default height as well
RenderInputs ==
    {[results |-> r, height |-> AppHeight] : r \in Payloads}
    \cup {[results |-> PayloadSma, height |-> DefaultHeight]}

(***************************************************************************)
(* The crosshair callback, 727-777.                                        *)
(***************************************************************************)
Live(cs, ref) == ref # 0 /\ ~cs[ref].removed

\* the times on the time axis of surface ref
TimesOf(cs, ref) ==
    UNION { {cs[ref].series[k].data[n].time :
                n \in 1..Len(cs[ref].series[k].data)} :
            k \in 1..Len(cs[ref].series) } \ {NoTime}

\* faulty variant: the first item of the series when none is at param.time
SeriesDataNearest(cs, ref, handle, time) ==
    IF handle[1] = ref /\ handle[2] \in 1..Len(cs[ref].series)
    THEN LET data == cs[ref].series[handle[2]].data
             at   == {n \in 1..Len(data) : data[n].time = time}
         IN  IF at # {} THEN data[CHOOSE n \in at : TRUE]
             ELSE IF Len(data) > 0 THEN data[1] ELSE Undefined
    ELSE Undefined

\* param.seriesData.get(handle): the item of that series of the surface the
\* event comes from at param.time; undefined for any other handle
SeriesDataGet(cs, ref, handle, time) ==
    IF handle[1] = ref /\ handle[2] \in 1..Len(cs[ref].series)
    THEN LET data == cs[ref].series[handle[2]].data
             at   == {n \in 1..Len(data) : data[n].time = time}
         IN  IF at = {} THEN Undefined ELSE data[CHOOSE n \in at : TRUE]
    ELSE Undefined

IsReserved(key) == key = "price" \/ key = "volume" \/ key = "equity"

\* 733-760: a reserved identity, looked up by its key
ReservedValue(cs, ref, map, key, time) ==
    IF Has(map, key)
    THEN SeriesDataGet(cs, ref, Get(map, key).series, time)
    ELSE Undefined

\* faulty variant: every legend entry in the first colour of the palette
LegendEntryOneColor(item, entry) ==
    [value |-> item.value, color |-> indicatorColors[1]]

\* 768-771: { value: indicatorData.value, color: value.color }
LegendEntry(item, entry) == [value |-> item.value, color |-> entry.color]

\* 764-774: seriesMap.current.forEach over the keys that are not reserved
RECURSIVE LegendIndicators(_, _, _, _, _, _)
LegendIndicators(out, cs, ref, map, time, i) ==
    IF i > Len(map) THEN out
    ELSE IF IsReserved(map[i][1])
    THEN LegendIndicators(out, cs, ref, map, time, i + 1)
    ELSE
      LET item == SeriesDataGet(cs, ref, map[i][2].series, time)
      IN  IF item # Undefined
          THEN LegendIndicators(
                   Put(out, map[i][1], LegendEntry(item, map[i][2])),
                   cs, ref, map, time, i + 1)
          ELSE LegendIndicators(out, cs, ref, map, time, i + 1)

\* 733-776: the snapshot built for param.time = time
SnapshotAt(cs, ref, map, time) ==
    LET vol == ReservedValue(cs, ref, map, "volume", time)
        eq  == ReservedValue(cs, ref, map, "equity", time)
    IN  [time       |-> time,
         price      |-> ReservedValue(cs, ref, map, "price", time),
         volume     |-> IF vol # Undefined THEN Num(vol.value) ELSE Undefined,
         equity     |-> IF eq # Undefined THEN Num(eq.value) ELSE Undefined,
         indicators |-> LegendIndicators(<<>>, cs, ref, map, time, 1)]

\* faulty variant: the return for an event without a time left out
LegendForNoReturn(cs, ref, map, time) == SnapshotAt(cs, ref, map, time)

\* 727-777: the legend data the callback sets for param.time = time
LegendFor(cs, ref, map, time) ==
    IF time = NoTime THEN Null
    ELSE SnapshotAt(cs, ref, map, time)

(***************************************************************************)
(* The component's life.  Effects run in the order they are written, all  *)
(* cleanups of a commit before its effects, and a commit is one step.      *)
(***************************************************************************)
InitWidth == CHOOSE w \in Widths : \A v \in Widths : w <= v

\* the chart effect (603-789) run for props p
SurfaceOf(cs, id, p, built) ==
    [charts   |-> Append(cs, Surface(built, InitWidth, p.height)),
     chartRef |-> id,
     map      |-> built.map,
     removed  |-> <<>>]

RunChartEffect(cs, map, p) ==
    SurfaceOf(cs, Len(cs) + 1, p, BuildChart(Len(cs) + 1, p, map))

\* faulty variant: the series of the surface in use replaced in place
UpdateInPlace(cs, ref, map, p) ==
    LET built == BuildChart(ref, p, map)
    IN  [charts   |-> [cs EXCEPT ![ref].series = built.series],
         chartRef |-> ref,
         map      |-> built.map,
         removed  |-> <<>>]

\* a dependency changed: the cleanup (783-788), then the effect again
\* faulty variant: the effect run again without the cleanup of the last run
RebuildNoCleanup(cs, ref, map, p) ==
    [RunChartEffect(cs, map, p) EXCEPT !.removed = <<>>]

Rebuild(cs, ref, map, p) ==
    LET cl == Cleanup(cs, ref)
    IN  [RunChartEffect(cl[1], map, p) EXCEPT !.removed = cl[3]]

\* The App shows results (App.tsx 477-490): a new instance with new refs.
Mount ==
    \E in \in RenderInputs :
        /\ ~mounted
        /\ Len(charts) < MaxGen
        /\ Len(in.results.candles) > 0
        /\ results' = in.results
        /\ props' = PropsOf(in.results, in.height)
        /\ \E ef \in {RunChartEffect(charts, <<>>, props')} :
               /\ charts' = ef.charts
               /\ chartRef' = ef.chartRef
               /\ seriesMap' = ef.map
        /\ mounted' = TRUE
        /\ inst' = inst + 1
        /\ legendData' = Null
        /\ lastParam' = NoParam
        /\ roActive' = TRUE
        /\ roHeight' = in.height
        /\ lastFire' = NoFire
        /\ UNCHANGED <<timers, refitsSinceResize, removeCalls, normVars, appVars>>

\* New props on the mounted instance: the dependency list (789) compares the
\* arrays by reference, so the chart effect is cleaned up and run again; the
\* resize effect (792-808) only when height changed.
Rerender ==
    \E in \in RenderInputs :
        /\ mounted
        /\ Len(charts) < MaxGen
        /\ Len(in.results.candles) > 0
        /\ results' = in.results
        /\ props' = PropsOf(in.results, in.height)
        /\ \E ef \in {Rebuild(charts, chartRef, seriesMap, props')} :
               /\ charts' = ef.charts
               /\ chartRef' = ef.chartRef
               /\ seriesMap' = ef.map
               /\ removeCalls' = removeCalls \o ef.removed
        /\ roActive' = TRUE
        /\ roHeight' = in.height
        /\ lastFire' = NoFire
        /\ lastParam' = NoParam
        /\ UNCHANGED <<mounted, inst, legendData, timers, refitsSinceResize,
                       normVars, appVars>>

\* The instance goes away: both cleanups run (783-788, 805-807).
Unmount ==
    /\ mounted
    /\ LET cl == Cleanup(charts, chartRef)
       IN  /\ charts' = cl[1]
           /\ chartRef' = cl[2]
           /\ removeCalls' = removeCalls \o cl[3]
    /\ mounted' = FALSE
    /\ roActive' = FALSE
    /\ props' = NoProps
    /\ seriesMap' = <<>>
    /\ legendData' = Null
    /\ lastParam' = NoParam
    /\ results' = NoResults
    /\ lastFire' = NoFire
    /\ UNCHANGED <<inst, roHeight, timers, refitsSinceResize, normVars, appVars>>

\* The observer's callback (795-801): applyOptions now, fitContent deferred.
\* faulty variant: the resize also empties the surface
ApplySizeDropsSeries(cs, ref, width, height) ==
    IF ref # 0
    THEN [cs EXCEPT ![ref].width = width, ![ref].height = height,
                    ![ref].series = <<>>]
    ELSE cs

\* chartRef.current?.applyOptions({ width, height }) (797)
ApplySize(cs, ref, width, height) ==
    IF ref # 0
    THEN [cs EXCEPT ![ref].width = width, ![ref].height = height]
    ELSE cs

ResizeEvent ==
    \E width \in Widths :
        /\ roActive
        /\ Len(timers) < MaxPending
        /\ charts' = ApplySize(charts, chartRef, width, roHeight)
        /\ timers' = Append(timers, [inst |-> inst, sched |-> chartRef])
        /\ refitsSinceResize' = 0
        /\ UNCHANGED <<mounted, inst, props, chartRef, seriesMap, legendData,
                       roActive, roHeight, removeCalls, results, normVars, appVars>>
        /\ lastFire' = NoFire
        /\ lastParam' = NoParam

\* chartRef.current as the callback of a timer of instance i reads it
RefSeenBy(i) == IF i = inst THEN chartRef ELSE 0

\* The deferred callback (798-800): chartRef.current?.timeScale().fitContent()
TimerFire ==
    /\ timers # <<>>
    /\ LET t      == Head(timers)
           target == RefSeenBy(t.inst)
       IN  /\ lastFire' = [fired |-> TRUE,
                           sched |-> t.sched,
                           schedRemoved |-> charts[t.sched].removed,
                           instMounted |-> (t.inst = inst /\ mounted),
                           target |-> target,
                           targetRemoved |->
                               IF target = 0 THEN FALSE
                               ELSE charts[target].removed]
           /\ refitsSinceResize' =
                  IF target # 0 THEN refitsSinceResize + 1
                  ELSE refitsSinceResize
    /\ timers' = Tail(timers)
    /\ UNCHANGED <<mounted, inst, props, chartRef, charts, seriesMap,
                   legendData, roActive, roHeight, removeCalls, results,
                   normVars, appVars>>
    /\ lastParam' = NoParam

\* The crosshair moves over the live surface, or leaves it.
CrosshairMove ==
    /\ mounted
    /\ Live(charts, chartRef)
    /\ \E time \in TimesOf(charts, chartRef) \cup {NoTime} :
           /\ legendData' = LegendFor(charts, chartRef, seriesMap, time)
           /\ lastParam' = [moved |-> TRUE, time |-> time,
                            surface |-> chartRef,
                            hidLegend |->
                                time = NoTime /\ legendData # Null]
    /\ UNCHANGED <<mounted, inst, props, chartRef, charts, seriesMap, timers,
                   roActive, roHeight, refitsSinceResize, removeCalls,
                   results, normVars, appVars>>
    /\ lastFire' = NoFire

(***************************************************************************)
(* The App's form and its run of a backtest, App.tsx 105-277.  Texts the   *)
(* user types are sequences of characters; the other texts are strings.    *)
(***************************************************************************)
STRATEGIES == {"sma_crossover", "bollinger_bands", "rsi_oversold"}

STOCK_SYMBOLS == {"AAPL", "SPY"}

IsDigit(c) == c \in {"0", "1", "2", "3", "4", "5", "6", "7", "8", "9"}

\* val.replace(/[$\s,]/g, '')
Clean(val) ==
    LET idx == {i \in 1..Len(val) : val[i] \notin {"$", " ", ","}}
    IN  [k \in 1..Cardinality(idx) |->
            val[CHOOSE i \in idx : Cardinality({j \in idx : j < i}) = k - 1]]

\* /^\d*\.?\d*$/.test(clean)
MatchesNumberPattern(clean) ==
    /\ \A i \in 1..Len(clean) : IsDigit(clean[i]) \/ clean[i] = "."
    /\ Cardinality({i \in 1..Len(clean) : clean[i] = "."}) <= 1

\* the place of the '.' of a text that has one, else one past its end
DotAt(clean) ==
    IF \E i \in 1..Len(clean) : clean[i] = "."
    THEN CHOOSE i \in 1..Len(clean) : clean[i] = "."
    ELSE Len(clean) + 1

\* parts[0].replace(/\B(?=(\d{3})+(?!\d))/g, ','): a comma before every
\* digit, but the first, that a multiple of three digits ends with
RECURSIVE GroupThousands(_, _)
GroupThousands(digits, i) ==
    IF i > Len(digits) THEN <<>>
    ELSE (IF i > 1 /\ (Len(digits) - i + 1) % 3 = 0 THEN <<",">> ELSE <<>>)
         \o <<digits[i]>> \o GroupThousands(digits, i + 1)

\* 161-164: the text shown for an amount that matches the pattern
FormatDisplay(clean) ==
    GroupThousands(SubSeq(clean, 1, DotAt(clean) - 1), 1)
    \o SubSeq(clean, DotAt(clean), Len(clean))

\* 119-132: maxDate is the day two months before today, and a date is
\* accepted when it is empty or not after maxDate.  Days are numbered.
DayOf(dateStr) ==
    CASE dateStr = "2020-01-02" -> 1
      [] dateStr = "2020-03-04" -> 2
      [] dateStr = "2999-01-01" -> 9

maxDate == "2020-03-04"

isDateValid(dateStr) ==
    IF dateStr = "" THEN TRUE ELSE DayOf(dateStr) <= DayOf(maxDate)

\* 172; the texts are truthy when they are not empty
isValid ==
    /\ selectedStrategy # ""
    /\ amount # <<>>
    /\ startDate # ""
    /\ endDate # ""
    /\ stock # ""
    /\ error = ""

NaN == [t |-> "NaN", int |-> <<>>, frac |-> <<>>]

\* the number of digits of s from place from on
DigitRun(s, from) ==
    CHOOSE n \in 0..(Len(s) - from + 1) :
        /\ \A i \in from..(from + n - 1) : IsDigit(s[i])
        /\ from + n <= Len(s) => ~IsDigit(s[from + n])

\* parseFloat of a text of digits and '.': the longest prefix that is a
\* decimal literal as a number (its digits before and after the point); NaN
\* when that prefix has no digit
parseFloat(s) ==
    LET n1 == DigitRun(s, 1)
        n2 == IF n1 < Len(s) /\ s[n1 + 1] = "." THEN DigitRun(s, n1 + 2) ELSE 0
    IN  IF n1 = 0 /\ n2 = 0 THEN NaN
        ELSE [t |-> "number", int |-> SubSeq(s, 1, n1),
              frac |-> SubSeq(s, n1 + 2, n1 + 1 + n2)]

\* JSON.stringify of a number: NaN becomes null
StringifyNumber(v) ==
    IF v.t = "NaN" THEN [t |-> "null", int |-> <<>>, frac |-> <<>>] ELSE v

\* 209-219 and 239: the payload and the body that is sent
RequestOf(strategy, sym, from, to, amt) ==
    [strategy_name |-> strategy, data_source |-> sym, start_date |-> from,
     end_date |-> to, initial_cash |-> parseFloat(amt),
     body_initial_cash |-> StringifyNumber(parseFloat(amt))]

NoRequest == RequestOf("", "", "", "", <<>>)

NoFlight == [active |-> FALSE, fetches |-> 0, request |-> NoRequest]

NoRunEnd == [ended |-> FALSE, requestFailed |-> FALSE, fetches |-> 0,
             outcome |-> "none"]

\* What the fetch can come to.  A rejection carries the browser's TypeError;
\* a response has a status line and a body; a body is JSON or not, and a
\* JSON body is null or an object with or without detail and message.
Body(parses, nul, detail, message, text, data) ==
    [parses |-> parses, nul |-> nul, detail |-> detail, message |-> message,
     text |-> text, data |-> data]

NoBody == Body(FALSE, FALSE, "", "", "", NoResults)

Outcomes ==
    { [name |-> "network", rejected |-> TRUE, message |-> "Failed to fetch",
       ok |-> FALSE, status |-> "", body |-> NoBody],
      [name |-> "detail", rejected |-> FALSE, message |-> "", ok |-> FALSE,
       status |-> "400 Bad Request",
       body |-> Body(TRUE, FALSE, "bad strategy", "", "{detail}", NoResults)],
      [name |-> "message", rejected |-> FALSE, message |-> "", ok |-> FALSE,
       status |-> "500 Internal Server Error",
       body |-> Body(TRUE, FALSE, "", "crashed", "{message}", NoResults)],
      [name |-> "object", rejected |-> FALSE, message |-> "", ok |-> FALSE,
       status |-> "500 Internal Server Error",
       body |-> Body(TRUE, FALSE, "", "", "{}", NoResults)],
      [name |-> "null", rejected |-> FALSE, message |-> "", ok |-> FALSE,
       status |-> "500 Internal Server Error",
       body |-> Body(TRUE, TRUE, "", "", "null", NoResults)],
      [name |-> "html", rejected |-> FALSE, message |-> "", ok |-> FALSE,
       status |-> "502 Bad Gateway",
       body |-> Body(FALSE, FALSE, "", "", "<html>", NoResults)],
      [name |-> "empty", rejected |-> FALSE, message |-> "", ok |-> FALSE,
       status |-> "503 Service Unavailable", body |-> NoBody],
      [name |-> "garbled", rejected |-> FALSE, message |-> "", ok |-> TRUE,
       status |-> "200 OK",
       body |-> Body(FALSE, FALSE, "", "", "<html>", NoResults)] }
    \cup { [name |-> "data", rejected |-> FALSE, message |-> "", ok |-> TRUE,
            status |-> "200 OK",
            body |-> Body(TRUE, FALSE, "", "", "{candles}", r)] :
           r \in {PayloadSma, PayloadBare} }

Threw(message) == [threw |-> TRUE, message |-> message, data |-> NoResults]

\* response.json(): the body is read; a body that is no JSON rejects
JsonSyntaxError == "Unexpected token < in JSON"

\* response.text() on a body that json() has read already rejects
BodyUsedError == "body stream already read"

NullAccessError == "Cannot read properties of null"

\* 244-257: the response is not OK; what is thrown
ThrowNotOk(response) ==
    IF response.body.parses /\ ~response.body.nul
    THEN Threw("API Error: " \o
               (IF response.body.detail # "" THEN response.body.detail
                ELSE IF response.body.message # "" THEN response.body.message
                ELSE response.body.text))
    ELSE Threw(BodyUsedError)

\* faulty variant: the test of response.ok left out
AfterFetchNoOkTest(outcome) ==
    IF outcome.rejected THEN Threw(outcome.message)
    ELSE IF ~outcome.body.parses THEN Threw(JsonSyntaxError)
    ELSE IF outcome.body.nul THEN Threw(NullAccessError)
    ELSE [threw |-> FALSE, message |-> "", data |-> outcome.body.data]

\* 234-267: from the await of fetch to the end of the try block
AfterFetch(outcome) ==
    IF outcome.rejected THEN Threw(outcome.message)
    ELSE IF ~outcome.ok THEN ThrowNotOk(outcome)
    ELSE IF ~outcome.body.parses THEN Threw(JsonSyntaxError)
    ELSE IF outcome.body.nul THEN Threw(NullAccessError)
    ELSE [threw |-> FALSE, message |-> "", data |-> outcome.body.data]

\* what the user can type or paste into the amount field
AmountInputs ==
    { <<>>, <<" ">>, <<".">>, <<"5">>, <<"$", "5">>, <<"1", ".", "5">>,
      <<"1", ",", "2", "3", "4">>, <<"1", ".", "2", ".", "3">>, <<"x">> }

DateInputs == {"", "2020-01-02", "2999-01-01"}

\* 418
SelectStrategy ==
    \E id \in STRATEGIES :
        /\ selectedStrategy' = id
        /\ UNCHANGED <<amount, displayAmount, startDate, endDate, stock, error,
                       runVars, results, componentVars, normVars>>

\* 148-170
handleAmount ==
    \E val \in AmountInputs :
        /\ IF Clean(val) = <<>>
           THEN amount' = <<>> /\ displayAmount' = <<>> /\ error' = ""
           ELSE IF MatchesNumberPattern(Clean(val))
           THEN /\ amount' = Clean(val)
                /\ error' = ""
                /\ displayAmount' = FormatDisplay(Clean(val))
           ELSE /\ error' = "Invalid number"
                /\ UNCHANGED <<amount, displayAmount>>
        /\ UNCHANGED <<selectedStrategy, startDate, endDate, stock, runVars,
                       results, componentVars, normVars>>

\* 134-138
handleStartDate ==
    \E dateStr \in DateInputs :
        /\ startDate' = IF isDateValid(dateStr) THEN dateStr ELSE startDate
        /\ UNCHANGED <<selectedStrategy, amount, displayAmount, endDate, stock,
                       error, runVars, results, componentVars, normVars>>

\* 140-144
handleEndDate ==
    \E dateStr \in DateInputs :
        /\ endDate' = IF isDateValid(dateStr) THEN dateStr ELSE endDate
        /\ UNCHANGED <<selectedStrategy, amount, displayAmount, startDate,
                       stock, error, runVars, results, componentVars,
                       normVars>>

\* 404
SetStock ==
    \E sym \in STOCK_SYMBOLS \cup {""} :
        /\ stock' = sym
        /\ UNCHANGED <<selectedStrategy, amount, displayAmount, startDate,
                       endDate, error, runVars, results, componentVars,
                       normVars>>

\* A click on the run button, which is disabled while the form is not valid
\* or a run is loading (457-458): runBacktest up to its await of fetch
\* (174-240).
runBacktest ==
    /\ isValid /\ ~loading
    /\ showResults' = FALSE
    /\ results' = NoResults
    /\ IF selectedStrategy \in STRATEGIES
       THEN /\ loading' = TRUE
            /\ apiError' = ""
            /\ flight' = [active |-> TRUE, fetches |-> flight.fetches + 1,
                          request |-> RequestOf(selectedStrategy, stock,
                                                startDate, endDate, amount)]
            /\ runEnd' = NoRunEnd
       ELSE /\ loading' = FALSE
            /\ apiError' = "Strategy not found"
            /\ flight' = NoFlight
            /\ runEnd' = [ended |-> TRUE, requestFailed |-> FALSE,
                          fetches |-> 0, outcome |-> "none"]
    /\ UNCHANGED <<formVars, componentVars, normVars>>

\* err instanceof Error ? err.message : 'Failed to run backtest' (271); all
\* that is thrown here is an Error
CatchMessage(thrown) == thrown.message

\* The fetch settles and runBacktest runs to its end (240-276).
FetchSettles ==
    /\ flight.active
    /\ \E outcome \in Outcomes :
        \E r \in {AfterFetch(outcome)} :
            /\ results' = IF r.threw THEN results ELSE r.data
            /\ showResults' = IF r.threw THEN showResults ELSE TRUE
            /\ apiError' = IF r.threw THEN CatchMessage(r) ELSE apiError
            /\ runEnd' = [ended |-> TRUE,
                          requestFailed |-> outcome.rejected \/ ~outcome.ok,
                          fetches |-> flight.fetches,
                          outcome |-> outcome.name]
    /\ loading' = FALSE
    /\ flight' = NoFlight
    /\ UNCHANGED <<formVars, componentVars, normVars>>

Init ==
    /\ normIn = NoCall
    /\ normOut = NoOutput
    /\ mounted = FALSE
    /\ inst = 0
    /\ props = NoProps
    /\ chartRef = 0
    /\ charts = <<>>
    /\ seriesMap = <<>>
    /\ legendData = Null
    /\ timers = <<>>
    /\ roActive = FALSE
    /\ roHeight = 0
    /\ lastFire = NoFire
    /\ refitsSinceResize = 0
    /\ removeCalls = <<>>
    /\ lastParam = NoParam
    /\ results = NoResults
    /\ selectedStrategy = ""
    /\ amount = <<>>
    /\ displayAmount = <<>>
    /\ startDate = ""
    /\ endDate = ""
    /\ stock = ""
    /\ error = ""
    /\ showResults = FALSE
    /\ loading = FALSE
    /\ apiError = ""
    /\ flight = NoFlight
    /\ runEnd = NoRunEnd

Next ==
    \/ Mount
    \/ Rerender
    \/ Unmount
    \/ ResizeEvent
    \/ TimerFire
    \/ CrosshairMove

Spec == Init /\ [][Next]_vars

NextNorm ==
    \/ CallCandles
    \/ CallEquity
    \/ CallIndicators
    \/ CallTrades

SpecNorm == Init /\ [][NextNorm]_vars

NextApp ==
    \/ SelectStrategy
    \/ handleAmount
    \/ handleStartDate
    \/ handleEndDate
    \/ SetStock
    \/ runBacktest
    \/ FetchSettles

SpecApp == Init /\ [][NextApp]_vars

(***************************************************************************)
(* Claims about the normalizers, under SpecNorm.                           *)
(***************************************************************************)
\* out is made, in order, of converted records of inp that satisfy Ok
Embeds(out, inp, Ok(_), Conv(_)) ==
    \E f \in [1..Len(out) -> 1..Len(inp)] :
        /\ \A a, b \in 1..Len(out) : a < b => f[a] < f[b]
        /\ \A k \in 1..Len(out) : Ok(inp[f[k]]) /\ out[k] = Conv(inp[f[k]])

NonEmptyDatetime(r) == Len(r.datetime) > 0

PointNonEmptyDatetime(pt) ==
    \E k \in 1..Len(pt) :
        pt[k][1] = "datetime" /\ pt[k][2].t = "string" /\ Len(pt[k][2].s) > 0

\* the lines of every indicator of the input, as <<points, field, line>>
LinesOf(name) == Get(normOut.indicatorsData, name)

LinesOfCall ==
    UNION { { << normIn.indicators[i][2],
                 LinesOf(normIn.indicators[i][1])[j][1],
                 LinesOf(normIn.indicators[i][1])[j][2] >> :
                j \in 1..Len(LinesOf(normIn.indicators[i][1])) } :
            i \in 1..Len(normIn.indicators) }

\* C1: a record whose datetime is empty produces no entry in the price, the
\* volume, the equity line or any indicator line: every output is made, in
\* order, of records with a non-empty datetime only.
C1_EmptyDatetimeDropped ==
    /\ Embeds(normOut.priceData, normIn.candles, NonEmptyDatetime, ToPrice)
    /\ Embeds(normOut.volumeData, normIn.candles, NonEmptyDatetime, ToVolume)
    /\ Embeds(normOut.equityData, normIn.equity, NonEmptyDatetime, ToEquityLine)
    /\ \A l \in LinesOfCall :
          Embeds(l[3], l[1], PointNonEmptyDatetime,
                 LAMBDA pt : ToLinePoint(pt, l[2]))

C1_Witness ==
    /\ normIn.fn = "candles"
    /\ Len(normIn.candles) = 2
    /\ normIn.candles[1].datetime = <<>>
    /\ normIn.candles[2].datetime # <<>>
    /\ Len(normOut.priceData) = 1
    /\ Len(normOut.volumeData) = 1

\* the records of points that field's line is to show: datetime not empty
\* and the field not null
ShownIdx(points, field) ==
    {i \in 1..Len(points) :
        PointNonEmptyDatetime(points[i]) /\ Get(points[i], field) # Null}

\* C2: no entry of a line comes from a record whose value for the field is
\* null; the line holds exactly the records with a non-empty datetime whose
\* field is not null, in order.
C2_NullNeverShown ==
    \A l \in LinesOfCall :
        /\ \A k \in 1..Len(l[3]) : l[3][k].value # Null
        /\ Len(l[3]) = Cardinality(ShownIdx(l[1], l[2]))
        /\ Embeds(l[3], l[1],
                  LAMBDA pt : PointNonEmptyDatetime(pt) /\ Get(pt, l[2]) # Null,
                  LAMBDA pt : ToLinePoint(pt, l[2]))

C2_Witness ==
    /\ normIn.fn = "indicators"
    /\ normIn.indicators =
          << <<"x", << Point(<<"1">>, << <<"a", Null>> >>),
                       Point(<<"2", "T", "5">>, << <<"a", Num(1)>> >>) >> >> >>
    /\ normOut.indicatorsData =
          << <<"x", << <<"a", << [time |-> <<"2">>, value |-> Num(1)] >> >>
                    >> >> >>

\* the first record of points with a non-empty datetime, 0 when none
FirstDated(points) ==
    IF \A i \in 1..Len(points) : ~PointNonEmptyDatetime(points[i]) THEN 0
    ELSE CHOOSE i \in 1..Len(points) :
             /\ PointNonEmptyDatetime(points[i])
             /\ \A j \in 1..(i - 1) : ~PointNonEmptyDatetime(points[j])

KeySet(obj) == {obj[k][1] : k \in 1..Len(obj)}

\* C3: the line names of an indicator are the keys of its first record with
\* a non-empty datetime, without "datetime"; no other record contributes.
C3_SchemaFromFirstSample ==
    normIn.fn = "indicators" =>
        \A i \in 1..Len(normIn.indicators) :
            LET points == normIn.indicators[i][2]
                lines  == LinesOf(normIn.indicators[i][1])
            IN  /\ Has(normOut.indicatorsData, normIn.indicators[i][1])
                /\ KeySet(lines) =
                      IF FirstDated(points) = 0 THEN {}
                      ELSE KeySet(points[FirstDated(points)]) \ {"datetime"}
                /\ Len(lines) = Cardinality(KeySet(lines))

C3_Witness ==
    /\ normIn.fn = "indicators"
    /\ Len(normIn.indicators) = 1
    /\ Len(normIn.indicators[1][2]) = 2
    /\ ~PointNonEmptyDatetime(normIn.indicators[1][2][1])
    /\ KeySet(normIn.indicators[1][2][1]) = {"datetime", "b"}
    /\ PointNonEmptyDatetime(normIn.indicators[1][2][2])
    /\ KeySet(normIn.indicators[1][2][2]) = {"datetime", "a"}
    /\ KeySet(LinesOf("x")) = {"a"}

\* C4: a record with a non-empty datetime in which a field of the schema is
\* absent contributes no entry to the field's line; every entry of every
\* line carries a number.
C4_AbsentFieldDropped ==
    \A l \in LinesOfCall :
        /\ \A k \in 1..Len(l[3]) : l[3][k].value.t = "number"
        /\ Len(l[3]) =
              Cardinality({i \in ShownIdx(l[1], l[2]) : Has(l[1][i], l[2])})

(***************************************************************************)
(* Claims about the component, under Spec.                                 *)
(***************************************************************************)
LiveSeries == IF Live(charts, chartRef) THEN charts[chartRef].series ELSE <<>>

\* the identity a series of a surface is registered under
IdentityOf(ser) ==
    CASE ser.type = "Candlestick" -> "price"
      [] ser.type = "Histogram" -> "volume"
      [] ser.type = "Line" /\ ser.priceScaleId = "left" -> "equity"
      [] OTHER -> ser.title

\* C5: within one build, an identity registered twice is rejected; the
\* earlier registration is never silently overwritten.  A build that has
\* completed therefore resolves the identity of each series it registered
\* to that very series.
C5_NoSilentOverwrite ==
    mounted =>
        \A k \in 1..Len(LiveSeries) :
            /\ Has(seriesMap, IdentityOf(LiveSeries[k]))
            /\ Get(seriesMap, IdentityOf(LiveSeries[k])).series = <<chartRef, k>>

\* C6: after any payload replacements the registry holds exactly the
\* identities registered from the most recent payload, and no handle of an
\* earlier surface.
C6_RegistryIsCurrentGeneration ==
    (mounted /\ Live(charts, chartRef)) =>
        /\ \A i \in 1..Len(seriesMap) : seriesMap[i][2].series[1] = chartRef
        /\ {seriesMap[i][1] : i \in 1..Len(seriesMap)} =
              {IdentityOf(LiveSeries[k]) : k \in 1..Len(LiveSeries)}

\* the identities of the live surface in the order of their first registration
RegistrationOrder ==
    LET firsts == {k \in 1..Len(LiveSeries) :
                      \A m \in 1..(k - 1) :
                          IdentityOf(LiveSeries[m]) # IdentityOf(LiveSeries[k])}
    IN  [n \in 1..Cardinality(firsts) |->
            IdentityOf(LiveSeries[
                CHOOSE k \in firsts :
                    Cardinality({m \in firsts : m < k}) = n - 1])]

\* the keys of the registry whose handle is of the live surface, as iterated
CurrentKeysIterated ==
    LET cur == {i \in 1..Len(seriesMap) : seriesMap[i][2].series[1] = chartRef}
    IN  [n \in 1..Cardinality(cur) |->
            seriesMap[CHOOSE i \in cur :
                          Cardinality({m \in cur : m < i}) = n - 1][1]]

\* C7: iterating the registry follows the registration order of the current
\* build; an identity of an earlier build does not keep its earlier place.
C7_IterationFollowsRegistration ==
    (mounted /\ Live(charts, chartRef)) =>
        CurrentKeysIterated = RegistrationOrder

\* the lines of the props that have data, as <<indicator index, line index>>
LinesWithData ==
    {pr \in UNION { {<<i, j>> : j \in 1..Len(props.indicatorsData[i][2])} :
                    i \in 1..Len(props.indicatorsData) } :
        Len(props.indicatorsData[pr[1]][2][pr[2]][2]) > 0}

\* how many lines with data are traversed before pr
RankOf(pr) ==
    Cardinality({q \in LinesWithData :
                    q[1] < pr[1] \/ (q[1] = pr[1] /\ q[2] < pr[2])})

PrimarySeriesCount ==
    1 + (IF Len(props.volumeData) > 0 THEN 1 ELSE 0)
      + (IF Len(props.equityData) > 0 THEN 1 ELSE 0)

\* the last series of the live surface that carries this title
LastTitled(title) ==
    CHOOSE k \in 1..Len(LiveSeries) :
        /\ LiveSeries[k].title = title
        /\ \A m \in (k + 1)..Len(LiveSeries) : LiveSeries[m].title # title

\* C8: the k-th indicator line registered in a build, counting lines with
\* data in traversal order and no line without data, has colour k mod 8 of
\* the palette of eight; the colour kept for an identity is thus a function
\* of the input alone.
C8_PaletteByRegistrationOrder ==
    (mounted /\ Live(charts, chartRef)) =>
        /\ Len(indicatorColors) = 8
        /\ Len(LiveSeries) = PrimarySeriesCount + Cardinality(LinesWithData)
        /\ \A pr \in LinesWithData :
              LET ser  == LiveSeries[PrimarySeriesCount + RankOf(pr) + 1]
                  name == props.indicatorsData[pr[1]][1] \o "."
                          \o props.indicatorsData[pr[1]][2][pr[2]][1]
              IN  /\ ser.title = name
                  /\ ser.data = props.indicatorsData[pr[1]][2][pr[2]][2]
                  /\ ser.color = indicatorColors[(RankOf(pr) % 8) + 1]
                  /\ Get(seriesMap, name).color = LiveSeries[LastTitled(name)].color

C8_Witness ==
    /\ mounted
    /\ Live(charts, chartRef)
    /\ Cardinality(LinesWithData) = 10
    /\ \E i \in 1..Len(props.indicatorsData) :
          \E j \in 1..Len(props.indicatorsData[i][2]) :
              /\ <<i, j>> \notin LinesWithData
              /\ \E pr \in LinesWithData : pr[1] = i /\ pr[2] > j
    /\ LiveSeries[PrimarySeriesCount + 9].color = indicatorColors[1]
    /\ LiveSeries[PrimarySeriesCount + 10].color = indicatorColors[2]

\* C9: of two resize events delivered before the deferred re-fit of the first
\* has run, only the re-fit scheduled last executes: after a resize event at
\* most one deferred fitContent runs until the next resize event.
C9_OnlyLastRefitRuns == refitsSinceResize <= 1

\* C10 as claimed: when the surface a re-fit was scheduled for is destroyed
\* before the callback fires, the callback operates on no surface at all.
C10_NoOpAfterDestroy ==
    (lastFire.fired /\ lastFire.schedRemoved) => lastFire.target = 0

\* C10 amended: such a callback never operates on a destroyed surface and
\* raises nothing; after an unmount it does nothing, after a rebuild it
\* re-fits the surface that replaced the destroyed one.
C10_DestroyedSurfaceUntouched ==
    lastFire.fired =>
        /\ lastFire.target # 0 => ~lastFire.targetRemoved
        /\ lastFire.schedRemoved =>
              /\ lastFire.target # lastFire.sched
              /\ lastFire.instMounted <=> lastFire.target # 0

C10_Witness ==
    /\ lastFire.fired
    /\ lastFire.schedRemoved
    /\ ~lastFire.instMounted
    /\ lastFire.target = 0
    /\ ~mounted

(***************************************************************************)
(* C11 .. C20                                                              *)
(***************************************************************************)
PayloadOf(p) == [p EXCEPT !.height = 0]

C12_TeardownIdempotent ==
    /\ LET once == Cleanup(charts, chartRef)
       IN  Cleanup(once[1], once[2]) = << once[1], once[2], <<>> >>
    /\ chartRef = 0 => Cleanup(charts, chartRef) = << charts, chartRef, <<>> >>
    /\ \A a, b \in 1..Len(removeCalls) :
          removeCalls[a] = removeCalls[b] => a = b
    /\ \A i \in 1..Len(charts) :
          charts[i].removed <=> \E a \in 1..Len(removeCalls) : removeCalls[a] = i

C12_Witness ==
    /\ ~mounted
    /\ chartRef = 0
    /\ Len(charts) = 2
    /\ removeCalls = <<1, 2>>
    /\ Cleanup(charts, chartRef)[3] = <<>>

\* C13: a crosshair event that carries no time leaves the legend absent,
\* whatever was shown before and whatever the registry holds.
C13_NoTimeHidesLegend ==
    (lastParam.moved /\ lastParam.time = NoTime) => legendData = Null

C13_Witness ==
    /\ lastParam.moved
    /\ lastParam.time = NoTime
    /\ lastParam.hidLegend
    /\ legendData = Null
    /\ Len(seriesMap) > 1

\* the legend on screen is the snapshot of the last crosshair event, and that
\* event came from the surface in use
LegendIsOfLiveSurface ==
    /\ mounted
    /\ lastParam.moved
    /\ lastParam.time # NoTime
    /\ lastParam.surface = chartRef

\* the samples at time t of the series behind a registry handle
SamplesAt(handle, t) ==
    IF handle[1] = chartRef /\ Live(charts, chartRef)
    THEN {smp \in {LiveSeries[handle[2]].data[n] :
                      n \in 1..Len(LiveSeries[handle[2]].data)} : smp.time = t}
    ELSE {}

\* C14: for an event at time t the snapshot holds a value for a registered
\* identity exactly when the series of that identity has a sample at t, and
\* the value is that sample's; nothing is taken from another time.
C14_SnapshotOnlyExactSamples ==
    LegendIsOfLiveSurface =>
        /\ legendData # Null
        /\ legendData.time = lastParam.time
        /\ \A k \in 1..Len(legendData.indicators) :
              Has(seriesMap, legendData.indicators[k][1])
        /\ \A i \in 1..Len(seriesMap) :
              LET key == seriesMap[i][1]
                  at  == SamplesAt(seriesMap[i][2].series, lastParam.time)
              IN  CASE key = "price" ->
                         IF at = {} THEN legendData.price = Undefined
                         ELSE legendData.price \in at
                    [] key = "volume" ->
                         IF at = {} THEN legendData.volume = Undefined
                         ELSE legendData.volume \in {Num(smp.value) : smp \in at}
                    [] key = "equity" ->
                         IF at = {} THEN legendData.equity = Undefined
                         ELSE legendData.equity \in {Num(smp.value) : smp \in at}
                    [] OTHER ->
                         IF at = {} THEN ~Has(legendData.indicators, key)
                         ELSE /\ Has(legendData.indicators, key)
                              /\ Get(legendData.indicators, key).value
                                    \in {smp.value : smp \in at}

C14_Witness ==
    /\ LegendIsOfLiveSurface
    /\ lastParam.time = <<"1">>
    /\ legendData.price # Undefined
    /\ Has(seriesMap, "macd.signal")
    /\ Get(seriesMap, "macd.signal").series[1] = chartRef
    /\ ~Has(legendData.indicators, "macd.signal")
    /\ Has(legendData.indicators, "macd.macd")

\* the full names '<indicator>.<field>' of the lines of the props
FullNamesOfProps ==
    UNION { {props.indicatorsData[i][1] \o "." \o props.indicatorsData[i][2][j][1] :
                j \in 1..Len(props.indicatorsData[i][2])} :
            i \in 1..Len(props.indicatorsData) }

\* the series of the live surface of one kind that have a sample at time t
SamplesOfKind(kind, t) ==
    UNION { {LiveSeries[k].data[n] :
                n \in {m \in 1..Len(LiveSeries[k].data) :
                          LiveSeries[k].data[m].time = t}} :
            k \in {q \in 1..Len(LiveSeries) : IdentityOf(LiveSeries[q]) = kind} }

\* C15: in a snapshot the samples of price, volume and equity are under the
\* fields price, volume and equity and nowhere else; every other registered
\* identity that has a sample is under indicators, keyed by its full name
\* and with the colour it was registered with.
C15_SnapshotLayout ==
    LegendIsOfLiveSurface =>
        /\ legendData.price # Undefined =>
              legendData.price \in SamplesOfKind("price", lastParam.time)
        /\ legendData.volume # Undefined =>
              legendData.volume \in
                  {Num(smp.value) : smp \in SamplesOfKind("volume", lastParam.time)}
        /\ legendData.equity # Undefined =>
              legendData.equity \in
                  {Num(smp.value) : smp \in SamplesOfKind("equity", lastParam.time)}
        /\ \A k \in 1..Len(legendData.indicators) :
              LET key   == legendData.indicators[k][1]
                  shown == legendData.indicators[k][2]
              IN  /\ ~IsReserved(key)
                  /\ key \in FullNamesOfProps
                  /\ Has(seriesMap, key)
                  /\ shown.color = Get(seriesMap, key).color
                  /\ LET h == Get(seriesMap, key).series
                     IN  /\ h[1] = chartRef
                         /\ LiveSeries[h[2]].title = key
                         /\ LiveSeries[h[2]].color = shown.color
        /\ \A i \in 1..Len(seriesMap) :
              (/\ ~IsReserved(seriesMap[i][1])
               /\ SamplesAt(seriesMap[i][2].series, lastParam.time) # {})
                  => Has(legendData.indicators, seriesMap[i][1])

C15_Witness ==
    /\ LegendIsOfLiveSurface
    /\ legendData.price # Undefined
    /\ legendData.volume # Undefined
    /\ legendData.equity # Undefined
    /\ Len(legendData.indicators) >= 3
    /\ \E a, b \in 1..Len(legendData.indicators) :
          legendData.indicators[a][2].color # legendData.indicators[b][2].color

\* C16: the price and the volume output of one call have the same length,
\* and their entries at the same place have the same time and come from one
\* and the same candle of the input.
C16_PriceVolumeAligned ==
    normIn.fn = "candles" =>
        /\ Len(normOut.priceData) = Len(normOut.volumeData)
        /\ \E f \in [1..Len(normOut.priceData) -> 1..Len(normIn.candles)] :
              /\ \A a, b \in DOMAIN f : a < b => f[a] < f[b]
              /\ \A k \in DOMAIN f :
                    LET pr  == normOut.priceData[k]
                        vol == normOut.volumeData[k]
                        rec == normIn.candles[f[k]]
                    IN  /\ pr.time = vol.time
                        /\ pr.time = SplitT0(rec.datetime)
                        /\ pr.open = rec.open /\ pr.high = rec.high
                        /\ pr.low = rec.low /\ pr.close = rec.close
                        /\ vol.value = rec.volume

C16_Witness ==
    /\ normIn.fn = "candles"
    /\ Len(normIn.candles) = 2
    /\ normIn.candles[1].datetime = <<"1", "T", "5">>
    /\ normIn.candles[2].datetime = <<>>
    /\ Len(normOut.priceData) = 1
    /\ normOut.priceData[1].time = <<"1">>
    /\ normOut.volumeData[1].time = <<"1">>

\* out is the records of inp at the indices kept, converted, in input order
ExactlyKept(out, inp, kept, Conv(_)) ==
    /\ Len(out) = Cardinality(kept)
    /\ \A i \in kept :
          out[Cardinality({j \in kept : j <= i})] = Conv(inp[i])

DatedIdx(recs) == {i \in 1..Len(recs) : Len(recs[i].datetime) > 0}

\* C17: each normalizer outputs the records it retains, all of them, once
\* each and in input order; records of one day stay separate entries, and an
\* empty input gives an empty output.
C17_RetainedInInputOrder ==
    /\ ExactlyKept(normOut.priceData, normIn.candles, DatedIdx(normIn.candles),
                   LAMBDA c : [time |-> SplitT0(c.datetime), open |-> c.open,
                               high |-> c.high, low |-> c.low,
                               close |-> c.close])
    /\ ExactlyKept(normOut.volumeData, normIn.candles, DatedIdx(normIn.candles),
                   LAMBDA c : [time |-> SplitT0(c.datetime),
                               value |-> c.volume])
    /\ ExactlyKept(normOut.equityData, normIn.equity, DatedIdx(normIn.equity),
                   LAMBDA e : [time |-> SplitT0(e.datetime),
                               value |-> e.equity])
    /\ \A l \in LinesOfCall :
          ExactlyKept(l[3], l[1], ShownIdx(l[1], l[2]),
                      LAMBDA pt : [time |-> SplitT0(Get(pt, "datetime").s),
                                   value |-> Get(pt, l[2])])
    /\ (normIn.fn = "candles" /\ normIn.candles = <<>>) =>
          normOut.priceData = <<>> /\ normOut.volumeData = <<>>
    /\ (normIn.fn = "equity" /\ normIn.equity = <<>>) =>
          normOut.equityData = <<>>

C17_Witness ==
    /\ normIn.fn = "equity"
    /\ Len(normIn.equity) = 2
    /\ normIn.equity[1].datetime = <<"1", "T", "5">>
    /\ normIn.equity[2].datetime = <<"1">>
    /\ Len(normOut.equityData) = 2
    /\ normOut.equityData[1].time = normOut.equityData[2].time

\* every datetime text of the input of the call
InputDatetimes ==
    {normIn.candles[i].datetime : i \in 1..Len(normIn.candles)}
    \cup {normIn.equity[i].datetime : i \in 1..Len(normIn.equity)}
    \cup UNION { {Get(normIn.indicators[i][2][k], "datetime").s :
                     k \in 1..Len(normIn.indicators[i][2])} :
                 i \in 1..Len(normIn.indicators) }

\* every time of the output of the call
OutputTimes ==
    {normOut.priceData[k].time : k \in 1..Len(normOut.priceData)}
    \cup {normOut.volumeData[k].time : k \in 1..Len(normOut.volumeData)}
    \cup {normOut.equityData[k].time : k \in 1..Len(normOut.equityData)}
    \cup UNION { {l[3][k].time : k \in 1..Len(l[3])} : l \in LinesOfCall }

HasSeparator(d) == \E i \in 1..Len(d) : d[i] = "T"

\* C18: truncating a datetime twice gives what truncating it once gives, a
\* date without the separator is its own truncation, and so every time that
\* a normalizer has produced is left as it is by a further truncation.
C18_TruncationIdempotent ==
    /\ \A d \in InputDatetimes :
          /\ SplitT0(SplitT0(d)) = SplitT0(d)
          /\ ~HasSeparator(d) => SplitT0(d) = d
          /\ ~HasSeparator(SplitT0(d))
          /\ \E n \in 0..Len(d) : SplitT0(d) = SubSeq(d, 1, n)
    /\ \A t \in OutputTimes : SplitT0(t) = t /\ ~HasSeparator(t)

C18_Witness ==
    /\ normIn.fn = "candles"
    /\ Len(normIn.candles) = 2
    /\ normIn.candles[1].datetime = <<"2", "T", "T">>
    /\ normIn.candles[2].datetime = <<"2">>
    /\ normOut.priceData[1].time = <<"2">>
    /\ normOut.priceData[2].time = <<"2">>

\* no record of the list has a datetime that is not empty (so also: no record)
Undated(pts) == \A k \in 1..Len(pts) : ~PointNonEmptyDatetime(pts[k])

\* the field names that occur in the records of the list
FieldNamesOf(pts) == UNION {KeySet(pts[k]) : k \in 1..Len(pts)} \ {"datetime"}

\* the titles of the series of the surface in use
LiveTitles == {LiveSeries[k].title : k \in 1..Len(LiveSeries)}

\* the keys the registry holds with a handle of the surface in use
LiveKeys ==
    {seriesMap[i][1] : i \in {m \in 1..Len(seriesMap) :
                                 seriesMap[m][2].series[1] = chartRef}}

\* C19: an indicator of the payload whose record list is empty or has no
\* record with a datetime gives zero lines, no series and no registry entry,
\* and the build completes; every other indicator of the payload has its
\* lines, and a series and a registry entry for each line with data.
C19_UndatedIndicatorSkipped ==
    (mounted /\ Live(charts, chartRef)) =>
        \A i \in 1..Len(results.indicators) :
            LET name  == results.indicators[i][1]
                pts   == results.indicators[i][2]
                lines == Get(props.indicatorsData, name)
            IN  /\ Has(props.indicatorsData, name)
                /\ IF Undated(pts)
                   THEN /\ lines = <<>>
                        /\ \A f \in FieldNamesOf(pts) :
                              /\ (name \o "." \o f) \notin LiveTitles
                              /\ (name \o "." \o f) \notin LiveKeys
                   ELSE /\ KeySet(lines)
                              = KeySet(pts[FirstDated(pts)]) \ {"datetime"}
                        /\ \A j \in 1..Len(lines) :
                              /\ ExactlyKept(lines[j][2], pts,
                                     ShownIdx(pts, lines[j][1]),
                                     LAMBDA pt :
                                       [time |-> SplitT0(Get(pt, "datetime").s),
                                        value |-> Get(pt, lines[j][1])])
                              /\ lines[j][2] # <<>> =>
                                    /\ \E k \in 1..Len(LiveSeries) :
                                          /\ LiveSeries[k].title
                                                = name \o "." \o lines[j][1]
                                          /\ LiveSeries[k].data = lines[j][2]
                                    /\ (name \o "." \o lines[j][1]) \in LiveKeys

C19_Witness ==
    /\ mounted
    /\ Live(charts, chartRef)
    /\ \E i \in 1..Len(results.indicators) : results.indicators[i][2] = <<>>
    /\ \E i \in 1..Len(results.indicators) :
          /\ results.indicators[i][2] # <<>>
          /\ Undated(results.indicators[i][2])
          /\ \E m \in (i + 1)..Len(results.indicators) :
                ~Undated(results.indicators[m][2])
    /\ "kc.upper" \in LiveKeys
    /\ "ema.value" \notin LiveKeys

\* the fields of the schema of a record list whose line has no entry: every
\* record has an empty datetime or null for the field
EmptyFields(pts) ==
    IF Undated(pts) THEN {}
    ELSE {f \in KeySet(pts[FirstDated(pts)]) \ {"datetime"} :
             ShownIdx(pts, f) = {}}

\* the places of the indicator series among the series of the surface in use
IndicatorPlaces ==
    {k \in 1..Len(LiveSeries) : ~IsReserved(IdentityOf(LiveSeries[k]))}

\* C20: a field of the schema whose line has no entry has no series on the
\* surface and no registry entry of the build, and takes no colour: the
\* series of the lines with data have the colours of the palette one after
\* the other, without a gap.
C20_EmptyLineNoSeries ==
    (mounted /\ Live(charts, chartRef)) =>
        /\ \A i \in 1..Len(results.indicators) :
              \A f \in EmptyFields(results.indicators[i][2]) :
                  /\ (results.indicators[i][1] \o "." \o f) \notin LiveTitles
                  /\ (results.indicators[i][1] \o "." \o f) \notin LiveKeys
        /\ \A k \in 1..Len(LiveSeries) : LiveSeries[k].data = <<>> =>
              IdentityOf(LiveSeries[k]) = "price"
        /\ \A k \in IndicatorPlaces :
              LiveSeries[k].color =
                  indicatorColors[
                      (Cardinality({m \in IndicatorPlaces : m < k})
                          % Len(indicatorColors)) + 1]

C20_Witness ==
    /\ mounted
    /\ Live(charts, chartRef)
    /\ \E i \in 1..Len(results.indicators) :
          /\ results.indicators[i][1] = "macd"
          /\ "signal" \in EmptyFields(results.indicators[i][2])
    /\ "macd.signal" \notin LiveTitles
    /\ \E k \in IndicatorPlaces :
          /\ LiveSeries[k].title = "macd.macd"
          /\ LiveSeries[k].color = indicatorColors[4]
          /\ LiveSeries[k + 1].title = "macd.histogram"
          /\ LiveSeries[k + 1].color = indicatorColors[5]

(***************************************************************************)
(* C21 .. C30                                                              *)
(***************************************************************************)
\* C21: lines of different indicators never get the same identity
\* '<indicator>.<field>', whatever the names are, so the registry of a build
\* holds as many indicator entries as the surface has indicator series.
C21_IdentitiesDistinct ==
    (mounted /\ Live(charts, chartRef)) =>
        /\ \A k, m \in IndicatorPlaces :
              k # m => LiveSeries[k].title # LiveSeries[m].title
        /\ Cardinality({key \in LiveKeys : ~IsReserved(key)})
              = Cardinality(IndicatorPlaces)

\* a datetime text the backend's format can be read from: a date ("1", "2"),
\* alone or followed by the separator and a time of day ("5")
ParseableDatetime(d) ==
    /\ Len(d) \in {1, 3}
    /\ d[1] \in {"1", "2"}
    /\ Len(d) = 3 => d[2] = "T" /\ d[3] = "5"

\* C22: a record whose datetime is not empty but cannot be read as a date is
\* dropped: the price, volume and equity outputs are made, in order, of
\* records with a readable datetime only.
C22_UnparseableDropped ==
    /\ Embeds(normOut.priceData, normIn.candles,
              LAMBDA c : ParseableDatetime(c.datetime), ToPrice)
    /\ Embeds(normOut.volumeData, normIn.candles,
              LAMBDA c : ParseableDatetime(c.datetime), ToVolume)
    /\ Embeds(normOut.equityData, normIn.equity,
              LAMBDA e : ParseableDatetime(e.datetime), ToEquityLine)

\* the place on the surface in use of the series registered under key, 0 when
\* the registry has no handle of that surface for it
PlaceOf(key) ==
    IF Has(seriesMap, key) /\ Get(seriesMap, key).series[1] = chartRef
    THEN Get(seriesMap, key).series[2]
    ELSE 0

SameButSize(before, after) ==
    IF before.removed \/ after.removed THEN after = before
    ELSE after = [before EXCEPT !.width = after.width, !.height = after.height]

\* C25: a move of the cursor, a resize and the deferred re-fit of a resize
\* leave the registry as it is and add or remove no series of any surface;
\* the move and the re-fit leave every surface as it is, and a resize changes
\* nothing of a surface but its width and height.
C25_EventsKeepSeries ==
    [][(lastParam'.moved \/ lastFire'.fired \/ Len(timers') > Len(timers)) =>
          /\ seriesMap' = seriesMap
          /\ chartRef' = chartRef
          /\ Len(charts') = Len(charts)
          /\ \A i \in 1..Len(charts) : SameButSize(charts[i], charts'[i])
          /\ Len(timers') <= Len(timers) => charts' = charts
          /\ \A i \in 1..Len(charts) : i # chartRef => charts'[i] = charts[i]
      ]_vars

C25_Witness ==
    /\ mounted /\ Live(charts, chartRef)
    /\ charts[chartRef].width # InitWidth
    /\ lastFire.fired /\ lastFire.target = chartRef
    /\ Len(LiveSeries) > PrimarySeriesCount
    /\ \A k \in 1..Len(LiveSeries) :
          Get(seriesMap, IdentityOf(LiveSeries[k])).series = <<chartRef, k>>

\* the surfaces that exist and have not been removed
LiveSurfaces(cs) == {i \in 1..Len(cs) : ~cs[i].removed}

\* at most one surface is live, it is the one the reference holds, a surface
\* is removed by exactly one call of remove(), and no surface is live while
\* the component is not mounted
OneLiveSurface(cs, ref, calls, mnt) ==
    /\ Cardinality(LiveSurfaces(cs)) <= 1
    /\ LiveSurfaces(cs) = IF ref = 0 THEN {} ELSE {ref}
    /\ \A i \in 1..Len(cs) :
          Cardinality({a \in 1..Len(calls) : calls[a] = i})
              = IF cs[i].removed THEN 1 ELSE 0
    /\ ~mnt => LiveSurfaces(cs) = {} /\ ref = 0

\* C27: at most one surface is live at any time; a surface is created only
\* when the chart reference is null (that of a new instance, or the one the
\* cleanup has just cleared) and all earlier surfaces are removed; a surface
\* is removed exactly once, and after the unmount none is live.
C27_SingleSurfaceLifecycle ==
    [][/\ OneLiveSurface(charts', chartRef', removeCalls', mounted')
       /\ Len(charts') > Len(charts) =>
             /\ Len(charts') = Len(charts) + 1
             /\ mounted => Cleanup(charts, chartRef)[2] = 0
             /\ \A i \in 1..Len(charts) : charts'[i].removed
             /\ chartRef' = Len(charts')
      ]_vars

C27_Witness ==
    /\ ~mounted
    /\ Len(charts) = 2
    /\ LiveSurfaces(charts) = {}
    /\ Len(removeCalls) = 2
    /\ inst = 1

\* C28: whatever payloads the component has been given one after the other,
\* the legend holds no value for an identity that is not a series of the
\* current payload: no equity or volume without equity or volume data, and
\* no indicator line that the current payload does not have.
C28_LegendOfCurrentPayload ==
    (mounted /\ legendData # Null) =>
        /\ legendData.volume # Undefined => Len(props.volumeData) > 0
        /\ legendData.equity # Undefined => Len(props.equityData) > 0
        /\ \A k \in 1..Len(legendData.indicators) :
              legendData.indicators[k][1] \in FullNamesOfProps

\* C26: a trade whose datetime is empty produces no marker: the markers are
\* made, in order, of trades with a non-empty datetime only.
C26_UndatedTradeDropped ==
    Embeds(normOut.markers, normIn.trades, NonEmptyDatetime, ToMarker)

\* C29: every entry of every output of a normalizer (price, volume, equity,
\* indicator line) has a time that is not empty.
C29_TimeKeyNotEmpty == \A t \in OutputTimes : t # <<>>

\* C24: a run whose request failed (the fetch rejected, or the response was
\* not OK, with a JSON body or any other) has ended with an error message
\* that is not empty, no results, the results hidden and loading off, and
\* with the one request it made.
C24_FailedRunEndsWithError ==
    (runEnd.ended /\ runEnd.requestFailed) =>
        /\ apiError # ""
        /\ results = NoResults
        /\ ~showResults
        /\ ~loading
        /\ runEnd.fetches = 1
        /\ ~flight.active

C24_Witness ==
    /\ runEnd.ended /\ runEnd.requestFailed
    /\ runEnd.outcome = "html"
    /\ apiError = BodyUsedError
    /\ results = NoResults /\ ~showResults /\ ~loading

\* the number a text of the amount field stands for is finite
IsFiniteNumber(v) == v.t = "number"

\* C30: whenever the form is valid the stored amount parses to a finite
\* number, and the request of every run carries a finite initial_cash.
C30_ValidAmountIsFinite ==
    /\ isValid => IsFiniteNumber(parseFloat(amount))
    /\ flight.active =>
          /\ IsFiniteNumber(flight.request.initial_cash)
          /\ flight.request.body_initial_cash = flight.request.initial_cash

====
